---- MODULE Spec2Model ----
(***************************************************************************)
(* SCMLearningTrueGraph (fip/tasks/scm_learning_with_ground_truth):        *)
(* the one-shot setup() binding, the per-step metric logging, the          *)
(* threshold sweep of log_graph_metrics, the gain-corrected                *)
(* precision-recall / ROC areas of log_pr_and_roc and the counterfactual   *)
(* RMSEs of test_step_cf.                                                  *)
(*                                                                         *)
(* Tensors of floats are modelled exactly: graph metrics and areas are     *)
(* rationals <<n, d>> in lowest terms (d > 0), extended with -inf, +inf    *)
(* and NaN where the code divides by zero; the counterfactual RMSEs, which *)
(* take square roots, are fixed-point numbers with Scale units per 1.0.    *)
(***************************************************************************)
EXTENDS Integers, Sequences, FiniteSets, TLC

VARIABLES
    datamodule,     \* trainer.datamodule, owned by the external trainer
    is_setup,       \* self.is_setup
    standardize,    \* self.standardize      (Unset until setup binds it)
    mean_data,      \* self.mean_data        (Unset until setup binds it)
    std_data,       \* self.std_data         (Unset until setup binds it)
    special_mask,   \* self.method.special_mask
    op,             \* the last call made on the module
    exc,            \* the exception the last call raised, "none" if it returned
    batch,          \* the arguments of the last step
    logged,         \* self.log entries of the last step: key -> value
    printed,        \* print() notices of the last step
    locals          \* intermediate values of the last step, kept for inspection

vars == <<datamodule, is_setup, standardize, mean_data, std_data, special_mask,
          op, exc, batch, logged, printed, locals>>

module_fields == <<is_setup, standardize, mean_data, std_data, special_mask>>

---------------------------------------------------------------------------
(* Bounds of the model *)

\* total_nodes the module is constructed with (graphs are NumNodes x NumNodes,
\* samples have NumNodes features)
NumNodes == 2
\* longest family of graphs handed directly to log_pr_and_roc
MaxPoints == 2
\* largest batch of a counterfactual test step
MaxBatch == 2
\* fixed-point units per 1.0 in the counterfactual RMSEs
Scale == 100

Nodes == 1..NumNodes
Edges == Nodes \X Nodes

Unset == <<>>
Bound(v) == <<v>>


---------------------------------------------------------------------------
(* Exact arithmetic standing for the float tensors *)

Abs(a) == IF a < 0 THEN -a ELSE a

RECURSIVE GCD(_, _)
GCD(a, b) == IF b = 0 THEN a ELSE GCD(b, a % b)

RNorm(n, d) ==
    LET s == IF d < 0 THEN -1 ELSE 1
        g == GCD(Abs(n), Abs(d))
    IN  <<(s * n) \div g, (s * d) \div g>>

RZero == <<0, 1>>
ROne == <<1, 1>>
RAdd(a, b) == RNorm(a[1] * b[2] + b[1] * a[2], a[2] * b[2])
RSub(a, b) == RNorm(a[1] * b[2] - b[1] * a[2], a[2] * b[2])
RMul(a, b) == RNorm(a[1] * b[1], a[2] * b[2])
RDiv(a, b) == RNorm(a[1] * b[2], a[2] * b[1])
RLe(a, b) == a[1] * b[2] <= b[1] * a[2]
RLt(a, b) == a[1] * b[2] < b[1] * a[2]

\* a float: a finite rational, an infinity or NaN
Num(v) == [k |-> "num", v |-> v]
NegInf == [k |-> "ninf", v |-> RZero]
PosInf == [k |-> "pinf", v |-> RZero]
NaN == [k |-> "nan", v |-> RZero]

\* IEEE division of two finite floats
FDiv(a, b) ==
    IF b[1] # 0 THEN Num(RDiv(a, b))
    ELSE IF a[1] > 0 THEN PosInf
    ELSE IF a[1] < 0 THEN NegInf
    ELSE NaN

\* x >= 0 and x <= 1 as the tensor comparison evaluates them (False on NaN)
InUnit(x) == x.k = "num" /\ RLe(RZero, x.v) /\ RLe(x.v, ROne)

\* the order torch sorts floats in: -inf first, NaN last
Rank(x) == CASE x.k = "ninf" -> 0 [] x.k = "num" -> 1 [] x.k = "pinf" -> 2 [] x.k = "nan" -> 3
FLe(x, y) ==
    \/ Rank(x) < Rank(y)
    \/ Rank(x) = Rank(y) /\ (x.k # "num" \/ RLe(x.v, y.v))

\* F(x) with x evaluated once
With(x, F(_)) == CHOOSE r \in {F(v) : v \in {x}} : TRUE

\* the list as an explicit tuple
Force(list) == SubSeq(list, 1, Len(list))

\* Tensor.argsort(): torch does not fix the order of equal elements, so every
\* permutation that sorts the list is a possible result
argsort(list) ==
    {index \in [DOMAIN list -> DOMAIN list] :
        /\ \A i, j \in DOMAIN list : i # j => index[i] # index[j]
        /\ \A i, j \in DOMAIN list : i < j => FLe(list[index[i]], list[index[j]])}

\* the sorting permutation that keeps equal elements in ascending index order
\* (ties_ascending) or puts them in descending index order
sorted_index(list, ties_ascending) ==
    With(Force(list), LAMBDA l :
        SortSeq([i \in DOMAIN l |-> i], LAMBDA a, b :
            \/ ~FLe(l[b], l[a])
            \/ /\ FLe(l[a], l[b]) /\ FLe(l[b], l[a])
               /\ (IF ties_ascending THEN a < b ELSE a > b)))

\* Tensor.argsort() of the 100-member sweep, whose sorting permutations are too
\* many to enumerate: the two extreme orders of equal elements, by ascending
\* and by descending index
argsort_sweep(list) == {sorted_index(list, TRUE), sorted_index(list, FALSE)}

\* the results of Tensor.argsort() the model follows
argsort_of(list, exhaustive) ==
    IF exhaustive THEN argsort(list) ELSE argsort_sweep(list)

\* list[index]
Reorder(list, index) == Force([i \in DOMAIN list |-> list[index[i]]])

\* list[mask]
MaskSelect(list, mask) ==
    LET kept == SelectSeq([i \in DOMAIN list |-> i], LAMBDA i : mask[i])
    IN  Force([k \in DOMAIN kept |-> list[kept[k]]])

CountTrue(mask) == Cardinality({i \in DOMAIN mask : mask[i]})

RECURSIVE RSumRange(_, _, _)
RSumRange(list, lo, hi) ==
    IF lo > hi THEN RZero
    ELSE IF lo = hi THEN list[lo]
    ELSE LET mid == (lo + hi) \div 2
         IN  RAdd(RSumRange(list, lo, mid), RSumRange(list, mid + 1, hi))

\* torch.sum of a list
RSum(list) == With(Force(list), LAMBDA l : RSumRange(l, 1, Len(l)))

\* torch.trapz(y, x): sum of (x[i+1] - x[i]) * (y[i] + y[i+1]) / 2
trapz(y, x) ==
    With(<<Force(y), Force(x)>>, LAMBDA c :
        RSum([i \in 1..(Len(c[2]) - 1) |->
            RMul(RSub(c[2][i + 1], c[2][i]), RMul(RAdd(c[1][i], c[1][i + 1]), <<1, 2>>))]))

RECURSIVE GraphSumOver(_, _)
GraphSumOver(graph, es) ==
    IF es = {} THEN 0
    ELSE LET e == CHOOSE e \in es : TRUE IN graph[e] + GraphSumOver(graph, es \ {e})

\* torch.sum(graph)
GraphSum(graph) == GraphSumOver(graph, Edges)

---------------------------------------------------------------------------
(* log_pr_and_roc *)

\* pos_ratio = torch.sum(true_graph) / (num_nodes * num_nodes)
pos_ratio(true_graph) == RNorm(GraphSum(true_graph), NumNodes * NumNodes)

\* the gain of one precision or recall value:
\* (value - pos_ratio) / ((1 - pos_ratio) * value)
pr_gain_swapped_numerator(value, pr) ==
    FDiv(RSub(pr, value), RMul(RSub(ROne, pr), value))

pr_gain(value, pr) == FDiv(RSub(value, pr), RMul(RSub(ROne, pr), value))

list_pr_gain(list, pr) ==
    With(pr, LAMBDA ratio : Force([i \in DOMAIN list |-> pr_gain(list[i], ratio)]))

\* list_precision_pr_gain_ordered = list_precision_pr_gain[index_reordering_pr_gain]
precision_gain_not_reordered(list_precision_pr_gain, index) ==
    Force(list_precision_pr_gain)

list_precision_pr_gain_ordered(list_precision_pr_gain, index) ==
    Reorder(list_precision_pr_gain, index)

\* common_ind = ind_recall & ind_precision
common_ind(recall_ordered, precision_ordered) ==
    Force([i \in DOMAIN recall_ordered |->
        InUnit(recall_ordered[i]) /\ InUnit(precision_ordered[i])])

\* torch.sum(common_ind) >= 0.5
has_common_ind_always(mask) == TRUE

has_common_ind(mask) == 2 * CountTrue(mask) >= 1

Values(list) == Force([i \in DOMAIN list |-> list[i].v])

\* the padded curve handed to torch.trapz: (0, first precision) in front,
\* (1, 0) at the end
pr_curve_front_zero(recall_sel, precision_sel) ==
    [x |-> <<RZero>> \o recall_sel \o <<ROne>>,
     y |-> <<RZero>> \o precision_sel \o <<RZero>>]

pr_curve(recall_sel, precision_sel) ==
    [x |-> <<RZero>> \o recall_sel \o <<ROne>>,
     y |-> <<precision_sel[1]>> \o precision_sel \o <<RZero>>]

\* torch.sum(list_fallout_roc_ordered) > 0.0
fallout_not_all_zero_always(fallout_ordered) == TRUE

fallout_not_all_zero(fallout_ordered) == RLt(RZero, RSum(fallout_ordered))

\* the padded curve of the recall-fallout area: (0, 0) in front, (1, 1) at the end
roc_curve(fallout_ordered, recall_ordered) ==
    [x |-> <<RZero>> \o fallout_ordered \o <<ROne>>,
     y |-> <<RZero>> \o recall_ordered \o <<ROne>>]

\* the precision-recall half from the ordered gains
pr_part_ordered(g, name) ==
    With(common_ind(g.recall_ordered, g.precision_ordered), LAMBDA mask :
    With([taken |-> has_common_ind(mask), count |-> CountTrue(mask)], LAMBDA t :
    With(IF t.count > 0
         THEN pr_curve(Values(MaskSelect(g.recall_ordered, mask)),
                       Values(MaskSelect(g.precision_ordered, mask)))
         ELSE [x |-> <<>>, y |-> <<>>], LAMBDA curve :
        [precision_gain |-> g.precision_gain,
         recall_gain |-> g.recall_gain,
         recall_ordered |-> g.recall_ordered,
         precision_ordered |-> g.precision_ordered,
         common_ind |-> mask,
         \* list_precision_pr_ordered[0] of an empty selection
         exc |-> IF t.taken /\ t.count = 0 THEN "IndexError" ELSE "none",
         curve |-> curve,
         logged |-> IF t.taken /\ t.count > 0
                    THEN (name \o "_auc_precision_recall") :> trapz(curve.y, curve.x)
                    ELSE <<>>,
         printed |-> IF t.taken THEN <<>>
                     ELSE <<"No indices found for precision recall">>])))

\* the precision-recall half, given the result of list_recall_pr_gain.argsort()
pr_part(pr, list_precision_pr, list_recall_pr, index, name) ==
    With([precision_gain |-> list_pr_gain(list_precision_pr, pr),
          recall_gain |-> list_pr_gain(list_recall_pr, pr)], LAMBDA gain :
    With([precision_gain |-> gain.precision_gain,
          recall_gain |-> gain.recall_gain,
          recall_ordered |-> Reorder(gain.recall_gain, index),
          precision_ordered |->
              list_precision_pr_gain_ordered(gain.precision_gain, index)], LAMBDA g :
        pr_part_ordered(g, name)))

\* the recall-fallout half, given the result of list_fallout_roc.argsort()
roc_part(list_fallout_roc, list_recall_roc, index, name) ==
    With([fallout_ordered |-> Reorder(list_fallout_roc, index),
          recall_ordered |-> Reorder(list_recall_roc, index)], LAMBDA o :
    With(fallout_not_all_zero(o.fallout_ordered), LAMBDA taken :
    With(IF taken THEN roc_curve(o.fallout_ordered, o.recall_ordered)
         ELSE [x |-> <<>>, y |-> <<>>], LAMBDA curve :
        [fallout_ordered |-> o.fallout_ordered,
         recall_ordered |-> o.recall_ordered,
         curve |-> curve,
         logged |-> IF taken
                    THEN (name \o "_auc_recall_fallout") :> trapz(curve.y, curve.x)
                    ELSE <<>>])))

\* the outcome of log_pr_and_roc from its two halves: an exception in the
\* first half ends the call
pr_and_roc(pr, p, r) ==
    IF p.exc # "none"
    THEN [exc |-> p.exc, logged |-> <<>>, printed |-> p.printed,
          locals |-> [pos_ratio |-> pr, pr |-> p, roc |-> <<>>]]
    ELSE [exc |-> "none", logged |-> p.logged @@ r.logged, printed |-> p.printed,
          locals |-> [pos_ratio |-> pr, pr |-> p, roc |-> r]]

Column(metrics, field) == Force([i \in DOMAIN metrics |-> metrics[i][field]])

Floats(list) == Force([i \in DOMAIN list |-> Num(list[i])])

NoBatch == [kind |-> "none"]
NoLocals == [kind |-> "none"]
EmptyLog == <<>>

\* no step is in progress: the trainer may attach a data module or call setup
Idle == batch.kind = "none"

\* the caller or the data loader hands over the arguments of the next step
Deliver(batches) ==
    /\ Idle
    /\ \E b \in batches : batch' = b
    /\ op' = "deliver"
    /\ exc' = "none"
    /\ UNCHANGED <<datamodule, module_fields, logged, printed, locals>>

\* log_pr_and_roc from the metrics of its graphs: every outcome, over the
\* results of its two argsort() calls (every sorting permutation if
\* exhaustive, else the two extreme orders of equal elements)
pr_and_roc_outcomes(true_graph, metrics, name, exhaustive) ==
    With([pos_ratio |-> pos_ratio(true_graph),
          list_precision_pr |-> Column(metrics, "precision"),
          list_recall |-> Column(metrics, "recall"),
          list_fallout_roc |-> Column(metrics, "fallout")], LAMBDA in :
        UNION {
            With(pr_part(in.pos_ratio, in.list_precision_pr, in.list_recall,
                         index_pr, name), LAMBDA p :
                {pr_and_roc(in.pos_ratio, p,
                            roc_part(in.list_fallout_roc, in.list_recall, index_roc, name)) :
                    index_roc \in argsort_of(Floats(in.list_fallout_roc), exhaustive)}) :
            index_pr \in argsort_of(list_pr_gain(in.list_recall, in.pos_ratio), exhaustive)})

\* self.log_pr_and_roc(true_graph, graphs, name); batch.metrics holds what the
\* metrics collaborator returns for each graph of the family
log_pr_and_roc ==
    /\ op = "deliver"
    /\ batch.kind = "pr_and_roc"
    /\ \E out \in pr_and_roc_outcomes(batch.true_graph, batch.metrics, batch.name, TRUE) :
          /\ op' = "log_pr_and_roc"
          /\ exc' = out.exc
          /\ logged' = out.logged
          /\ printed' = out.printed
          /\ locals' = out.locals
    /\ UNCHANGED <<datamodule, module_fields, batch>>

StepOps == {"log_pr_and_roc", "training_step", "validation_step", "test_step"}

\* the trainer takes the step's aggregates; the batch goes out of scope
EndStep ==
    /\ op \in StepOps
    /\ op' = "none"
    /\ exc' = "none"
    /\ batch' = NoBatch
    /\ logged' = EmptyLog
    /\ printed' = <<>>
    /\ locals' = NoLocals
    /\ UNCHANGED <<datamodule, module_fields>>

---------------------------------------------------------------------------
(* Inputs of log_pr_and_roc *)

\* precision and recall values of the metrics collaborator
MetricValues == {<<0, 1>>, <<1, 2>>, <<1, 1>>}
\* fallout values of the metrics collaborator
FalloutValues == {<<0, 1>>, <<1, 2>>}

MetricPoints ==
    {[precision |-> p, recall |-> r, fallout |-> f] :
        p \in MetricValues, r \in MetricValues, f \in FalloutValues}

MetricFamilies == UNION {[1..k -> MetricPoints] : k \in 1..MaxPoints}

\* the graph whose first k entries (row by row) are set
PrefixGraph(k) ==
    [e \in Edges |-> IF (e[1] - 1) * NumNodes + e[2] <= k THEN 1 ELSE 0]

\* true graphs handed to log_pr_and_roc: empty, one edge, a full row, complete
PRTrueGraphs == {PrefixGraph(k) : k \in {0, 1, NumNodes, NumNodes * NumNodes}}

PRBatches ==
    {[kind |-> "pr_and_roc", true_graph |-> g, metrics |-> m, name |-> "test"] :
        g \in PRTrueGraphs, m \in MetricFamilies}

NoDataModule == [kind |-> "none"]

\* SCMLearningTrueGraph(...): nothing bound, is_setup False
Constructed ==
    /\ is_setup = FALSE
    /\ standardize = Unset
    /\ mean_data = Unset
    /\ std_data = Unset
    /\ special_mask = Unset
    /\ op = "none"
    /\ exc = "none"
    /\ batch = NoBatch
    /\ logged = EmptyLog
    /\ printed = <<>>
    /\ locals = NoLocals

InitPR == Constructed /\ datamodule = NoDataModule

NextPR ==
    \/ Deliver(PRBatches)
    \/ log_pr_and_roc
    \/ EndStep

SpecPR == InitPR /\ [][NextPR]_vars

---------------------------------------------------------------------------
(* predict_graph, log_graph_metrics and the metrics collaborator *)

\* steps of torch.linspace(0.001, 1.0, steps=100)
NumThresholds == 100

\* torch.linspace(start, end, steps)
linspace(start, end, steps) ==
    [k \in 1..steps |->
        RAdd(start, RMul(<<k - 1, 1>>, RDiv(RSub(end, start), <<steps - 1, 1>>)))]

thresholds == linspace(<<1, 1000>>, ROne, NumThresholds)

\* predict_graph(batch, threshold=0.1, mode="mean")
default_threshold == <<1, 10>>

\* (continuous_graph > threshold).float()
binarize(continuous_graph, threshold) ==
    [e \in Edges |-> IF RLt(threshold, continuous_graph[e]) THEN 1 ELSE 0]

\* self.method.get_aggregated_causal_graph(x, mode="mean"): the continuous
\* graph the structural model produces for the batch
get_aggregated_causal_graph(b) == b.continuous_graph

\* self.method.get_threshold_causal_graph(x, threshold=thresholds): the
\* continuous model output binarized at each threshold, stacked
get_threshold_causal_graph(b, ths) ==
    [k \in DOMAIN ths |-> binarize(b.continuous_graph, ths[k])]

predict_graph(b) == binarize(get_aggregated_causal_graph(b), default_threshold)

DirectedPairs == {e \in Edges : e[1] # e[2]}
UndirectedPairs == {e \in Edges : e[1] < e[2]}
Adjacent(graph, e) == graph[e] = 1 \/ graph[<<e[2], e[1]>>] = 1

\* a ratio of counts, with the value the metric takes on an empty denominator
Ratio(n, d, default) == IF d = 0 THEN default ELSE RNorm(n, d)

f1_score(precision, recall) ==
    IF RAdd(precision, recall) = RZero THEN RZero
    ELSE RDiv(RMul(<<2, 1>>, RMul(precision, recall)), RAdd(precision, recall))

\* adjacency_f1(true_graph, graph): F1 of edge presence, direction ignored
adjacency_f1(true_graph, graph) ==
    LET t == {e \in UndirectedPairs : Adjacent(true_graph, e)}
        q == {e \in UndirectedPairs : Adjacent(graph, e)}
        tp == Cardinality(t \cap q)
    IN  f1_score(Ratio(tp, Cardinality(q), ROne), Ratio(tp, Cardinality(t), ROne))

\* orientation_precision_recall(true_graph, graph): directed edges
orientation_precision_recall(true_graph, graph) ==
    LET t == {e \in DirectedPairs : true_graph[e] = 1}
        q == {e \in DirectedPairs : graph[e] = 1}
        tp == Cardinality(t \cap q)
    IN  [precision |-> Ratio(tp, Cardinality(q), ROne),
         recall |-> Ratio(tp, Cardinality(t), ROne)]

\* orientation_f1(true_graph, graph)
orientation_f1(true_graph, graph) ==
    LET m == orientation_precision_recall(true_graph, graph)
    IN  f1_score(m.precision, m.recall)

\* orientation_fallout_recall(true_graph, graph): false-positive rate and recall
orientation_fallout_recall(true_graph, graph) ==
    LET t == {e \in DirectedPairs : true_graph[e] = 1}
        q == {e \in DirectedPairs : graph[e] = 1}
    IN  [fallout |-> Ratio(Cardinality(q \ t), Cardinality(DirectedPairs \ t), RZero),
         recall |-> Ratio(Cardinality(t \cap q), Cardinality(t), ROne)]

\* max(...) over a family of scores
RMax(scores) == CHOOSE m \in scores : \A x \in scores : RLe(x, m)

\* log_graph_metrics(batch, true_graph, name): the four entries it logs and
\* the family of graphs it returns
log_graph_metrics(b, true_graph, name) ==
    With([graph_pred |-> predict_graph(b) @@ <<>>,
          graphs |-> Force(get_threshold_causal_graph(b, thresholds))], LAMBDA v :
    With({v.graphs[k] : k \in DOMAIN v.graphs}, LAMBDA family :
        [logged |->
            (name \o "_adj_f1_pred") :> adjacency_f1(true_graph, v.graph_pred)
            @@ (name \o "_orient_f1_pred") :> orientation_f1(true_graph, v.graph_pred)
            @@ (name \o "_adj_f1_best") :>
                  RMax({adjacency_f1(true_graph, g) : g \in family})
            @@ (name \o "_orient_f1_best") :>
                  RMax({orientation_f1(true_graph, g) : g \in family}),
         graphs |-> v.graphs]))

\* the four lists log_pr_and_roc accumulates over the graphs
graph_metrics(true_graph, graphs) ==
    Force([k \in DOMAIN graphs |->
        With([pr |-> orientation_precision_recall(true_graph, graphs[k]),
              roc |-> orientation_fallout_recall(true_graph, graphs[k])], LAMBDA m :
            [precision |-> m.pr.precision, recall |-> m.pr.recall,
             fallout |-> m.roc.fallout])])

Opaque == "opaque"

ObsStep ==
    /\ op = "deliver"
    /\ batch.kind = "obs"
    /\ is_setup

\* training_step(batch, _): the losses are what the structural model and the
\* loss objective return
training_step ==
    /\ ObsStep
    /\ op' = "training_step"
    /\ exc' = "none"
    /\ logged' = ("train_loss" :> Opaque) @@ ("target_train_loss" :> Opaque)
                 @@ log_graph_metrics(batch, batch.true_graph, "train").logged
                 @@ ("Memory Info in GiB" :> Opaque)
    /\ printed' = <<>>
    /\ locals' = [kind |-> "step", name |-> "train"]
    /\ UNCHANGED <<datamodule, module_fields, batch>>

\* validation_step(batch)
validation_step ==
    /\ ObsStep
    /\ op' = "validation_step"
    /\ exc' = "none"
    /\ logged' = ("val_loss" :> Opaque) @@ ("val_rmse_noise_loss_std" :> Opaque)
                 @@ log_graph_metrics(batch, batch.true_graph, "val").logged
    /\ printed' = <<>>
    /\ locals' = [kind |-> "step", name |-> "val"]
    /\ UNCHANGED <<datamodule, module_fields, batch>>

\* test_step_obs(batch)
test_step_obs ==
    /\ ObsStep
    /\ \E m \in {log_graph_metrics(batch, batch.true_graph, "test")} :
       \E out \in pr_and_roc_outcomes(batch.true_graph,
                                      graph_metrics(batch.true_graph, m.graphs),
                                      "test", FALSE) :
          /\ exc' = out.exc
          /\ logged' = ("test_loss" :> Opaque)
                       @@ ("target_test_loss" :> Opaque)
                       @@ ("test_rmse_noise_loss_std" :> Opaque)
                       @@ ("test_rmse_generation_loss_std" :> Opaque)
                       @@ m.logged @@ out.logged
          /\ printed' = out.printed
    /\ op' = "test_step"
    /\ locals' = [kind |-> "step", name |-> "test"]
    /\ UNCHANGED <<datamodule, module_fields, batch>>

---------------------------------------------------------------------------
(* test_step_cf: fixed-point numbers, Scale units per 1.0 *)

FxOne == Scale
FxMul(a, b) == (a * b) \div Scale
FxDiv(a, b) == (a * Scale) \div b

\* the largest r in lo..hi with r * r <= n
RECURSIVE ISqrtBetween(_, _, _)
ISqrtBetween(n, lo, hi) ==
    IF lo >= hi THEN lo
    ELSE LET mid == (lo + hi + 1) \div 2
         IN  IF mid * mid <= n THEN ISqrtBetween(n, mid, hi)
             ELSE ISqrtBetween(n, lo, mid - 1)

\* torch.sqrt
FxSqrt(a) == ISqrtBetween(a * Scale, 0, a * Scale + 1)

RECURSIVE SumOver(_, _)
SumOver(f, dom) ==
    IF dom = {} THEN 0
    ELSE LET i == CHOOSE i \in dom : TRUE IN f[i] + SumOver(f, dom \ {i})

\* torch.mean of a vector
FxMean(f) == SumOver(f, DOMAIN f) \div Cardinality(DOMAIN f)

\* (data - mean_data) / std_data, row by row
standardized(data, mean, std) ==
    [i \in DOMAIN data |-> [j \in Nodes |-> FxDiv(data[i][j] - mean[j], std[j])]]

\* torch.mean(torch.sqrt(torch.mean((a - b) ** 2, dim=1)))
root_mse(a, b) ==
    FxMean([i \in DOMAIN a |->
        FxSqrt(FxMean([j \in Nodes |-> FxMul(a[i][j] - b[i][j], a[i][j] - b[i][j])]))])

zeros_like(v) == [j \in DOMAIN v |-> 0]
ones_like(v) == [j \in DOMAIN v |-> FxOne]

\* cf_data_pred_std = (cf_data_pred - mean_data) / std_data
cf_data_pred_std_of_fake_noise(cf_data_pred, cf_data_pred_fake_noise, mean, std) ==
    standardized(cf_data_pred_fake_noise, mean, std)

cf_data_pred_std(cf_data_pred, cf_data_pred_fake_noise, mean, std) ==
    standardized(cf_data_pred, mean, std)

\* test_step_cf(batch): batch.cf_data_pred and batch.cf_data_pred_fake_noise
\* are what self.method.ite_prediction returns with and without n_hat
test_step_cf ==
    /\ op = "deliver"
    /\ batch.kind = "cf"
    /\ is_setup
    /\ LET mean == mean_data[1]
           std == std_data[1]
           mean_cf == IF standardize[1] THEN mean ELSE zeros_like(mean)
           std_cf == IF standardize[1] THEN std ELSE ones_like(std)
           cf_data_std == standardized(batch.cf_data, mean, std)
           pred_std == cf_data_pred_std(batch.cf_data_pred,
                                        batch.cf_data_pred_fake_noise, mean, std)
           fake_std == standardized(batch.cf_data_pred_fake_noise, mean, std)
       IN  /\ logged' =
                 ("test_rmse_cf_loss" :> root_mse(batch.cf_data_pred, batch.cf_data))
                 @@ ("test_rmse_cf_loss_fake_noise" :>
                        root_mse(batch.cf_data_pred_fake_noise, batch.cf_data))
                 @@ ("test_rmse_cf_loss_std" :> root_mse(pred_std, cf_data_std))
                 @@ ("test_rmse_cf_loss_std_fake_noise" :> root_mse(fake_std, cf_data_std))
           /\ locals' = [kind |-> "cf", ite_mean |-> mean_cf, ite_std |-> std_cf]
    /\ op' = "test_step"
    /\ exc' = "none"
    /\ printed' = <<>>
    /\ UNCHANGED <<datamodule, module_fields, batch>>

\* test_step(batch, _, dataloader_idx)
test_step(dataloader_idx) ==
    CASE dataloader_idx = 0 -> test_step_obs
      [] dataloader_idx = 1 -> test_step_cf

---------------------------------------------------------------------------
(* setup *)

Stages == {"fit", "validate", "test", "None"}

\* isinstance(datamodule, NumpyTensorDataModule)
is_not_none(dm) == dm.kind # "none"

is_numpy_tensor_data_module(dm) == dm.kind = "numpy"

\* if self.is_setup: return
already_setup_never == FALSE

already_setup == is_setup

\* setup(stage)
setup(stage) ==
    /\ Idle
    /\ op' = "setup"
    /\ IF already_setup
       THEN /\ exc' = "none"
            /\ UNCHANGED module_fields
       ELSE IF ~is_numpy_tensor_data_module(datamodule)
       THEN /\ exc' = "TypeError"
            /\ UNCHANGED module_fields
       ELSE /\ standardize' = Bound(datamodule.standardize)
            /\ mean_data' = Bound(datamodule.mean_data)
            /\ std_data' = Bound(datamodule.std_data)
            /\ IF datamodule.true_graph = Unset
               \* None.to(self.device): the "is None" test below it is never reached
               THEN /\ exc' = "AttributeError"
                    /\ UNCHANGED <<special_mask, is_setup>>
               ELSE /\ special_mask' = datamodule.true_graph
                    /\ is_setup' = TRUE
                    /\ exc' = "none"
    /\ UNCHANGED <<datamodule, batch, logged, printed, locals>>

\* the trainer is given another data module (or none)
AttachDatamodule(modules) ==
    /\ Idle
    /\ \E dm \in modules : datamodule' = dm
    /\ op' = "attach"
    /\ exc' = "none"
    /\ UNCHANGED <<module_fields, batch, logged, printed, locals>>

---------------------------------------------------------------------------
(* Data modules and batches *)

ZeroMean == [j \in Nodes |-> 0]
ShiftedMean == [j \in Nodes |-> IF j = 1 THEN FxOne ELSE 0]
UnitStd == [j \in Nodes |-> FxOne]
WideStd == [j \in Nodes |-> IF j = 1 THEN 2 * FxOne ELSE FxOne]

EmptyGraph == [e \in Edges |-> 0]
ChainGraph == [e \in Edges |-> IF e[2] = e[1] + 1 THEN 1 ELSE 0]

ModuleOfKind(kind, flag, mean, std, graph) ==
    [kind |-> kind, standardize |-> flag, mean_data |-> mean, std_data |-> std,
     true_graph |-> graph]

\* a data module of another class that happens to carry the same attributes
OtherDataModule == ModuleOfKind("other", FALSE, ZeroMean, UnitStd, Bound(ChainGraph))

NumpyDataModules(stats, graphs) ==
    {ModuleOfKind("numpy", flag, st[1], st[2], g) :
        flag \in BOOLEAN, st \in stats, g \in graphs}

LifecycleDataModules ==
    {NoDataModule, OtherDataModule}
    \cup NumpyDataModules({<<ZeroMean, UnitStd>>, <<ShiftedMean, WideStd>>},
                          {Unset, Bound(ChainGraph), Bound(EmptyGraph)})

CfDataModules ==
    NumpyDataModules({ZeroMean, ShiftedMean} \X {UnitStd, WideStd}, {Bound(ChainGraph)})

\* continuous graph values around the fixed threshold 0.1 and the sweep
\* thresholds next to it (0.0918..., 0.1019...)
ContinuousLevels == {<<19, 200>>, <<101, 1000>>, <<1, 2>>}

\* true graphs of a batch: no self-loops, no two-cycles
TrueGraphs ==
    {g \in [Edges -> {0, 1}] :
        \A e \in Edges : g[e] = 1 => (e[1] # e[2] /\ g[<<e[2], e[1]>>] = 0)}

\* observational batches whose continuous graph takes the given levels
ObsBatches(levels) ==
    {[kind |-> "obs", true_graph |-> g, continuous_graph |-> c] :
        g \in TrueGraphs, c \in [Edges -> levels]}

ConstVec(v) == [j \in Nodes |-> v]
UnitVec(k, v) == [j \in Nodes |-> IF j = k THEN v ELSE 0]
VecAdd(a, b) == [j \in Nodes |-> a[j] + b[j]]

\* prediction errors of one sample: none, 1.0 on the first feature, 1.0 on the
\* last feature
ErrorVectors == {ConstVec(0), UnitVec(1, FxOne), UnitVec(NumNodes, FxOne)}

CfSamples ==
    {[cf_data |-> c, cf_data_pred |-> VecAdd(c, e1),
      cf_data_pred_fake_noise |-> VecAdd(c, e2)] :
        c \in {ConstVec(0), ConstVec(FxOne)}, e1 \in ErrorVectors, e2 \in ErrorVectors}

CfBatchOf(samples) ==
    [kind |-> "cf",
     cf_data |-> [i \in DOMAIN samples |-> samples[i].cf_data],
     cf_data_pred |-> [i \in DOMAIN samples |-> samples[i].cf_data_pred],
     cf_data_pred_fake_noise |->
        [i \in DOMAIN samples |-> samples[i].cf_data_pred_fake_noise]]

CfBatches ==
    {CfBatchOf(samples) : samples \in UNION {[1..n -> CfSamples] : n \in 1..MaxBatch}}

\* one observational and one counterfactual batch for the lifecycle
LifecycleBatches ==
    {[kind |-> "obs", true_graph |-> ChainGraph,
      continuous_graph |-> [e \in Edges |-> IF e[1] < e[2] THEN <<1, 2>> ELSE <<19, 200>>]],
     CfBatchOf(<<[cf_data |-> ConstVec(0), cf_data_pred |-> UnitVec(1, FxOne),
                  cf_data_pred_fake_noise |-> ConstVec(FxOne)]>>)}

---------------------------------------------------------------------------
(* Specifications *)

\* the module under a trainer that may change its data module between calls
Init == Constructed /\ datamodule \in LifecycleDataModules

Next ==
    \/ AttachDatamodule(LifecycleDataModules)
    \/ \E stage \in Stages : setup(stage)
    \/ (is_setup /\ Deliver(LifecycleBatches))
    \/ training_step
    \/ validation_step
    \/ test_step(0)
    \/ test_step(1)
    \/ EndStep

Spec == Init /\ [][Next]_vars

\* counterfactual test steps after setup from each data module
InitCf == Constructed /\ datamodule \in CfDataModules

NextCf ==
    \/ \E stage \in Stages : setup(stage)
    \/ (is_setup /\ Deliver(CfBatches))
    \/ test_step(1)
    \/ EndStep

SpecCf == InitCf /\ [][NextCf]_vars

\* training, validation and observational test steps over the batches
InitGraph ==
    Constructed /\ datamodule = ModuleOfKind("numpy", FALSE, ZeroMean, UnitStd, Bound(ChainGraph))

NextGraph ==
    \/ \E stage \in Stages : setup(stage)
    \/ (is_setup /\ Deliver(ObsBatches(ContinuousLevels)))
    \/ training_step
    \/ validation_step
    \/ test_step(0)
    \/ EndStep

SpecGraph == InitGraph /\ [][NextGraph]_vars

---------------------------------------------------------------------------
(* Properties of setup *)

\* C1: once setup() has succeeded, no later setup() call (whatever the stage
\* and the data module then attached) and no training, validation or test step
\* changes the cached standardize, mean_data, std_data or the bound
\* special_mask, and is_setup stays True
C1_BoundOnce ==
    [][is_setup =>
          /\ is_setup'
          /\ standardize' = standardize
          /\ mean_data' = mean_data
          /\ std_data' = std_data
          /\ special_mask' = special_mask]_vars

\* a setup() call returned on a module already set up, with a data module
\* attached whose flag, statistics and graph all differ from the ones bound
C1_Witness ==
    /\ is_setup
    /\ op = "setup"
    /\ exc = "none"
    /\ datamodule.kind = "numpy"
    /\ datamodule.true_graph # Unset
    /\ Bound(datamodule.standardize) # standardize
    /\ Bound(datamodule.mean_data) # mean_data
    /\ Bound(datamodule.std_data) # std_data
    /\ datamodule.true_graph # special_mask

\* C2: a setup() call on a module not yet set up whose data module is missing
\* or not a NumpyTensorDataModule raises TypeError, binds none of standardize,
\* mean_data, std_data and special_mask, and leaves is_setup False
C2_TypeErrorBindsNothing ==
    [][(op' = "setup" /\ ~is_setup /\ datamodule.kind # "numpy") =>
          /\ exc' = "TypeError"
          /\ ~is_setup'
          /\ standardize' = standardize
          /\ mean_data' = mean_data
          /\ std_data' = std_data
          /\ special_mask' = special_mask]_vars

\* setup() raised TypeError on a fresh module whose data module is of another
\* class that carries the same attributes
C2_Witness ==
    /\ op = "setup"
    /\ exc = "TypeError"
    /\ ~is_setup
    /\ datamodule.kind = "other"
    /\ standardize = Unset
    /\ mean_data = Unset
    /\ std_data = Unset
    /\ special_mask = Unset

\* C3 as claimed: setup() with a NumpyTensorDataModule whose true_graph is
\* None fails with ValueError, binds no special_mask and leaves is_setup False
C3_MissingGraphValueError ==
    (/\ op = "setup"
     /\ ~is_setup
     /\ datamodule.kind = "numpy"
     /\ datamodule.true_graph = Unset)
    => (exc = "ValueError" /\ special_mask = Unset)

---------------------------------------------------------------------------
(* Properties of log_graph_metrics *)

StepDone == op \in {"training_step", "validation_step", "test_step"} /\ locals.kind = "step"

\* C4 as claimed: after every step that calls log_graph_metrics, the logged
\* {tag}_adj_f1_best is at least {tag}_adj_f1_pred and the logged
\* {tag}_orient_f1_best is at least {tag}_orient_f1_pred
C4_BestAtLeastPred ==
    StepDone =>
        /\ RLe(logged[locals.name \o "_adj_f1_pred"], logged[locals.name \o "_adj_f1_best"])
        /\ RLe(logged[locals.name \o "_orient_f1_pred"],
               logged[locals.name \o "_orient_f1_best"])

---------------------------------------------------------------------------
(* Properties of test_step_cf *)

CfDone == op = "test_step" /\ locals.kind = "cf"

StdEqualsRaw ==
    /\ logged["test_rmse_cf_loss_std"] = logged["test_rmse_cf_loss"]
    /\ logged["test_rmse_cf_loss_std_fake_noise"] = logged["test_rmse_cf_loss_fake_noise"]

IdentitySubstitutes ==
    /\ locals.ite_mean = zeros_like(mean_data[1])
    /\ locals.ite_std = ones_like(std_data[1])

\* C5 as claimed: in test_step_cf with standardize False the mean and std
\* substitutes are zero and one and the logged standardized RMSEs equal the
\* raw ones, whatever mean_data and std_data were cached
C5_StdEqualsRawAsClaimed ==
    (CfDone /\ standardize = Bound(FALSE)) => (IdentitySubstitutes /\ StdEqualsRaw)

\* C5 amended: in test_step_cf with standardize False the mean and std handed
\* to ite_prediction are zero and one; the standardized RMSEs are computed
\* with the cached mean_data and std_data, and equal the raw ones when the
\* cached mean_data is all zeros and the cached std_data all ones
C5_StdEqualsRawUnderIdentityStats ==
    (CfDone /\ standardize = Bound(FALSE)) =>
        /\ IdentitySubstitutes
        /\ (mean_data = Bound(ZeroMean) /\ std_data = Bound(UnitStd)) => StdEqualsRaw

\* a counterfactual step without standardization, cached statistics zero and
\* one, whose two predictions have different, non-zero errors
C5_Witness ==
    /\ CfDone
    /\ standardize = Bound(FALSE)
    /\ mean_data = Bound(ZeroMean)
    /\ std_data = Bound(UnitStd)
    /\ logged["test_rmse_cf_loss"] > 0
    /\ logged["test_rmse_cf_loss_fake_noise"] > 0
    /\ logged["test_rmse_cf_loss"] # logged["test_rmse_cf_loss_fake_noise"]

---------------------------------------------------------------------------
(* Properties of log_pr_and_roc *)

PRDone == op = "log_pr_and_roc"
PRKey == batch.name \o "_auc_precision_recall"
ROCKey == batch.name \o "_auc_recall_fallout"
PosRatio == pos_ratio(batch.true_graph)
PrecisionGain(i) == pr_gain(batch.metrics[i].precision, PosRatio)
RecallGain(i) == pr_gain(batch.metrics[i].recall, PosRatio)
\* the sweep points whose two gains both lie in [0, 1]
Survivors ==
    {i \in DOMAIN batch.metrics : InUnit(PrecisionGain(i)) /\ InUnit(RecallGain(i))}
AllFalloutZero == \A i \in DOMAIN batch.metrics : batch.metrics[i].fallout = RZero
Half == <<1, 2>>
Occurrences(list, x) == Cardinality({i \in DOMAIN list : list[i] = x})

\* C6: {tag}_auc_precision_recall is logged exactly when at least one sweep
\* point has both gains in [0, 1]; with no such point the call raises nothing,
\* prints the notice, logs no precision-recall area and still carries out the
\* recall-fallout computation (whose area is logged when the fallouts are not
\* all zero).
C6_PRLoggedIffSurvivor ==
    PRDone =>
        /\ exc = "none"
        /\ (PRKey \in DOMAIN logged) <=> (Survivors # {})
        /\ Survivors = {} =>
              /\ printed = <<"No indices found for precision recall">>
              /\ DOMAIN locals.roc # {}
              /\ (ROCKey \in DOMAIN logged) <=> ~AllFalloutZero
        /\ Survivors # {} => printed = <<>>

C6_Witness ==
    /\ PRDone
    /\ Survivors = {}
    /\ printed # <<>>
    /\ PRKey \notin DOMAIN logged
    /\ ROCKey \in DOMAIN logged

\* C7: with all fallouts zero no {tag}_auc_recall_fallout is logged and nothing
\* is raised; otherwise the (fallout, recall) points in ascending fallout order,
\* padded with (0, 0) in front and (1, 1) at the end, are integrated by the
\* trapezoidal rule and logged, whether or not the precision-recall area was.
C7_ROCArea ==
    PRDone =>
        /\ AllFalloutZero => (ROCKey \notin DOMAIN logged /\ exc = "none")
        /\ ~AllFalloutZero =>
              /\ ROCKey \in DOMAIN logged
              /\ \E index \in [DOMAIN batch.metrics -> DOMAIN batch.metrics] :
                    LET f == [i \in DOMAIN batch.metrics |-> batch.metrics[index[i]].fallout]
                        r == [i \in DOMAIN batch.metrics |-> batch.metrics[index[i]].recall]
                    IN  /\ \A i, j \in DOMAIN index : i # j => index[i] # index[j]
                        /\ \A i, j \in DOMAIN index : i < j => RLe(f[i], f[j])
                        /\ logged[ROCKey] =
                              trapz(<<RZero>> \o r \o <<ROne>>, <<RZero>> \o f \o <<ROne>>)

C7_Witness ==
    /\ PRDone
    /\ ROCKey \in DOMAIN logged
    /\ PRKey \notin DOMAIN logged
    /\ Len(batch.metrics) = 2
    /\ RLt(batch.metrics[2].fallout, batch.metrics[1].fallout)
    /\ batch.metrics[1].recall # batch.metrics[2].recall

\* C8 as claimed: for pos_ratio in (0, 1) the gain is 0 at value = pos_ratio
\* and 1 / (1 - pos_ratio) at value = 1.
C8_GainAsClaimed ==
    PRDone /\ RLt(RZero, PosRatio) /\ RLt(PosRatio, ROne) =>
        \A i \in DOMAIN batch.metrics :
            /\ batch.metrics[i].precision = PosRatio =>
                  locals.pr.precision_gain[i] = Num(RZero)
            /\ batch.metrics[i].recall = PosRatio =>
                  locals.pr.recall_gain[i] = Num(RZero)
            /\ batch.metrics[i].precision = ROne =>
                  locals.pr.precision_gain[i] = Num(RDiv(ROne, RSub(ROne, PosRatio)))
            /\ batch.metrics[i].recall = ROne =>
                  locals.pr.recall_gain[i] = Num(RDiv(ROne, RSub(ROne, PosRatio)))

\* C8 amended: for pos_ratio in (0, 1) the gain is 0 at value = pos_ratio and
\* exactly 1 at value = 1.
C8_GainAtBaseRateAndOne ==
    PRDone /\ RLt(RZero, PosRatio) /\ RLt(PosRatio, ROne) =>
        \A i \in DOMAIN batch.metrics :
            /\ batch.metrics[i].precision = PosRatio =>
                  locals.pr.precision_gain[i] = Num(RZero)
            /\ batch.metrics[i].recall = PosRatio =>
                  locals.pr.recall_gain[i] = Num(RZero)
            /\ batch.metrics[i].precision = ROne =>
                  locals.pr.precision_gain[i] = Num(ROne)
            /\ batch.metrics[i].recall = ROne =>
                  locals.pr.recall_gain[i] = Num(ROne)

C8_Witness ==
    /\ PRDone
    /\ RLt(RZero, PosRatio) /\ RLt(PosRatio, ROne)
    /\ \E i, j \in DOMAIN batch.metrics :
          /\ batch.metrics[i].precision = PosRatio
          /\ batch.metrics[j].recall = ROne
          /\ locals.pr.precision_gain[i] = Num(RZero)
          /\ locals.pr.recall_gain[j] = Num(ROne)

C10_CurvePoints ==
    PRDone /\ Survivors # {} =>
        LET cx == locals.pr.curve.x
            cy == locals.pr.curve.y
            n == Cardinality(Survivors)
            interior == [i \in 1..n |-> <<cx[i + 1], cy[i + 1]>>]
            survivor(i) == <<RecallGain(i).v, PrecisionGain(i).v>>
        IN  /\ Len(cx) = n + 2 /\ Len(cy) = n + 2
            /\ \A i \in Survivors :
                  Occurrences(interior, survivor(i)) =
                      Cardinality({j \in Survivors : survivor(j) = survivor(i)})
            /\ \A i, j \in 1..n : i < j => RLe(interior[i][1], interior[j][1])
            /\ cx[1] = RZero
            /\ \E i \in Survivors :
                  /\ cy[1] = PrecisionGain(i).v
                  /\ \A j \in Survivors : RLe(RecallGain(i).v, RecallGain(j).v)
            /\ cx[n + 2] = ROne /\ cy[n + 2] = RZero
            /\ logged[PRKey] = trapz(cy, cx)

C10_Witness ==
    /\ PRDone
    /\ Cardinality(Survivors) = 2
    /\ RLt(RecallGain(2).v, RecallGain(1).v)
    /\ PrecisionGain(1) # PrecisionGain(2)
    /\ locals.pr.curve.x[2] = RecallGain(2).v
    /\ locals.pr.curve.y[2] = PrecisionGain(2).v
    /\ locals.pr.curve.y[1] = PrecisionGain(2).v

====
